---- MODULE Spec2Model ----
(***************************************************************************)
(* A model of src/src/ansistyle.rs: the process-wide styling policy         *)
(* (ENABLE_STYLING, a lazily initialised AtomicBool), the Styled<D>         *)
(* builder, and the fmt implementation generated by impl_fmt!.              *)
(*                                                                         *)
(* Bytes are modelled as one-character strings; "ESC" stands for the byte   *)
(* 0x1b.  Option<T> is modelled as a sequence: <<>> is None, <<x>> is       *)
(* Some(x).  A BTreeSet<Style> is modelled as the sequence of its elements  *)
(* in iteration order (ascending, without duplicates).                      *)
(***************************************************************************)
EXTENDS Naturals, Sequences, FiniteSets

VARIABLES
    env,             \* the process environment: CLICOLOR, CLICOLOR_FORCE, tty
    once,            \* state of the lazy_static cell of ENABLE_STYLING
    ENABLE_STYLING,  \* Option<bool>: the AtomicBool, None before initialisation
    pc,              \* pc[t]: position of thread t
    op,              \* op[t]: the call thread t is executing
    arg,             \* arg[t]: argument of a running set_should_style
    ret,             \* ret[t]: Option<bool>, the last return of should_style
    initCount,       \* history: number of runs of the lazy initialiser
    initBy,          \* history: the call whose access ran the initialiser
    lastSet,         \* history: Option<bool>, argument of the last completed set
    written,         \* history: values stored by set_should_style so far
    retSnap,         \* history: retSnap[t] is lastSet at t's last load
    w,               \* the Styled wrapper owned by the main thread
    lastFg,          \* history: Option<Color>, last colour given to fg
    lastBg,          \* history: Option<Color>, last colour given to bg
    lastForce,       \* history: Option<bool>, last value given to force_styling
    inserted,        \* history: the set of attributes given to style
    prevFg,          \* history: Option<Color>, the last other colour an fg call replaced
    outOfOrder,      \* history: a style call gave an attribute sorting before a present one
    name,            \* the fmt trait of the running render
    effective,       \* Option<bool>: the decision of the running render
    reset,           \* the local `reset` of fmt
    iter,            \* position of the iterator over self.styles
    out,             \* bytes written to the formatter by the render
    result,          \* "none" while rendering, then "Ok" or "Err"
    failedAt,        \* history: the write that failed, "none" if none
    outAtFail,       \* history: out right after the failing write
    reads,           \* history: policy loads made by the render
    held,            \* history: policy values held during the render
    startSet,        \* history: lastSet when the render started
    setsDuring       \* history: stores by set_should_style during the render

policyVars == <<env, once, ENABLE_STYLING, pc, op, arg, ret, initCount, initBy, lastSet,
                written, retSnap>>
wrapperVars == <<w, lastFg, lastBg, lastForce, inserted, prevFg, outOfOrder>>
renderVars == <<name, effective, reset, iter, out, result, failedAt, outAtFail>>
raceVars == <<reads, held, startSet, setsDuring>>
vars == <<policyVars, wrapperVars, renderVars, raceVars>>

(***************************************************************************)
(* Bounds of the model.                                                     *)
(***************************************************************************)
NumThreads == 2
Threads == 1 .. NumThreads
Main == 1

None == <<>>
Some(x) == <<x>>
IsSome(o) == o # <<>>
Unwrap(o) == o[1]

(***************************************************************************)
(* The environment.  An environment variable is unset, or holds an OS       *)
(* string; std::env::var returns Err(NotPresent) for an unset variable,     *)
(* Err(NotUnicode) for a value that is not valid Unicode, and Ok(value)     *)
(* otherwise.  "xFF" stands for the byte 0xff, which no UTF-8 string holds. *)
(***************************************************************************)
InvalidBytes == {"xFF"}
OsStrings == {<<"0">>, <<"1">>, <<>>, <<"0", "0">>, <<"xFF">>}
EnvValues == {None} \cup {Some(s) : s \in OsStrings}
IsUnicode(s) == \A i \in 1 .. Len(s) : s[i] \notin InvalidBytes

env_var(v) ==
    IF ~IsSome(v) THEN [ok |-> FALSE, val |-> <<>>, err |-> "NotPresent"]
    ELSE IF ~IsUnicode(Unwrap(v)) THEN [ok |-> FALSE, val |-> <<>>, err |-> "NotUnicode"]
    ELSE [ok |-> TRUE, val |-> Unwrap(v), err |-> ""]

unwrap_or(r, default) == IF r.ok THEN r.val ELSE default

is_a_terminal(e) == e.tty

supports_styling_swapped(e) ==
    (unwrap_or(env_var(e.CLICOLOR), <<"0">>) # <<"0">> \/ is_a_terminal(e))
    /\ unwrap_or(env_var(e.CLICOLOR_FORCE), <<"0">>) # <<"0">>

supports_styling(e) ==
    (unwrap_or(env_var(e.CLICOLOR), <<"0">>) # <<"0">> /\ is_a_terminal(e))
    \/ unwrap_or(env_var(e.CLICOLOR_FORCE), <<"0">>) # <<"0">>

(***************************************************************************)
(* The policy: lazy_static! { ENABLE_STYLING }, should_style and            *)
(* set_should_style.  Every access dereferences the lazy cell first         *)
(* (Once::call_once): the first thread to arrive runs the initialiser, a    *)
(* thread arriving while it runs waits, and afterwards the deref is a read. *)
(* The loads and stores are Ordering::Relaxed on one atomic location: they  *)
(* are totally ordered (its modification order), so each is one step here.  *)
(***************************************************************************)
Rendering == op[Main] = "fmt" /\ result = "none"

call_once_always(o) == o # "running"

call_once(o) == o = "incomplete"

should_style_call(t) ==
    /\ pc[t] = "idle"
    /\ pc' = [pc EXCEPT ![t] = "deref"]
    /\ op' = [op EXCEPT ![t] = "get"]
    /\ UNCHANGED <<env, once, ENABLE_STYLING, arg, ret, initCount, initBy, lastSet,
                   written, retSnap, wrapperVars, renderVars, raceVars>>

set_should_style_call(t, val) ==
    /\ pc[t] = "idle"
    /\ pc' = [pc EXCEPT ![t] = "deref"]
    /\ op' = [op EXCEPT ![t] = "set"]
    /\ arg' = [arg EXCEPT ![t] = val]
    /\ UNCHANGED <<env, once, ENABLE_STYLING, ret, initCount, initBy, lastSet,
                   written, retSnap, wrapperVars, renderVars, raceVars>>

Deref(t) ==
    /\ pc[t] = "deref"
    /\ once # "running"
    /\ IF call_once(once)
       THEN /\ once' = "running"
            /\ pc' = [pc EXCEPT ![t] = "init"]
       ELSE /\ once' = once
            /\ pc' = [pc EXCEPT ![t] = "access"]
    /\ UNCHANGED <<env, ENABLE_STYLING, op, arg, ret, initCount, initBy, lastSet,
                   written, retSnap, wrapperVars, renderVars, raceVars>>

LazyInit(t) ==
    /\ pc[t] = "init"
    /\ ENABLE_STYLING' = Some(supports_styling(env))
    /\ once' = "complete"
    /\ pc' = [pc EXCEPT ![t] = "access"]
    /\ initCount' = IF initCount < 2 THEN initCount + 1 ELSE initCount
    /\ initBy' = op[t]
    /\ held' = IF Rendering THEN held \cup {supports_styling(env)} ELSE held
    /\ UNCHANGED <<env, op, arg, ret, lastSet, written, retSnap, wrapperVars,
                   renderVars, reads, startSet, setsDuring>>

Load(t) ==
    /\ pc[t] = "access"
    /\ op[t] = "get"
    /\ ret' = [ret EXCEPT ![t] = Some(Unwrap(ENABLE_STYLING))]
    /\ retSnap' = [retSnap EXCEPT ![t] = lastSet]
    /\ pc' = [pc EXCEPT ![t] = "idle"]
    /\ op' = [op EXCEPT ![t] = "none"]
    /\ UNCHANGED <<env, once, ENABLE_STYLING, arg, initCount, initBy, lastSet, written,
                   wrapperVars, renderVars, raceVars>>

Store(t) ==
    /\ pc[t] = "access"
    /\ op[t] = "set"
    /\ ENABLE_STYLING' = Some(arg[t])
    /\ lastSet' = Some(arg[t])
    /\ written' = written \cup {arg[t]}
    /\ pc' = [pc EXCEPT ![t] = "idle"]
    /\ op' = [op EXCEPT ![t] = "none"]
    /\ held' = IF Rendering THEN held \cup {arg[t]} ELSE held
    /\ setsDuring' = (setsDuring \/ Rendering)
    /\ UNCHANGED <<env, once, arg, ret, initCount, initBy, retSnap, wrapperVars,
                   renderVars, reads, startSet>>

(***************************************************************************)
(* Color, Style and the Styled<D> builder.                                  *)
(***************************************************************************)
Color == {"Black", "Red", "Green", "Yellow", "Blue", "Magenta", "Cyan", "White"}

Color_ansi_num_shifted(c) ==
    CASE c = "Black" -> 1 [] c = "Red" -> 2 [] c = "Green" -> 3
      [] c = "Yellow" -> 4 [] c = "Blue" -> 5 [] c = "Magenta" -> 6
      [] c = "Cyan" -> 7 [] c = "White" -> 8

Color_ansi_num(c) ==
    CASE c = "Black" -> 0 [] c = "Red" -> 1 [] c = "Green" -> 2
      [] c = "Yellow" -> 3 [] c = "Blue" -> 4 [] c = "Magenta" -> 5
      [] c = "Cyan" -> 6 [] c = "White" -> 7

\* The variants of Style in declaration order: #[derive(Ord)] orders them so.
StyleVariants == <<"Bold", "Dim", "Underlined", "Blink", "Reverse", "Hidden">>
Style == {StyleVariants[i] : i \in 1 .. Len(StyleVariants)}
Style_cmp_rank(s) == CHOOSE i \in 1 .. Len(StyleVariants) : StyleVariants[i] = s

Style_ansi_num(s) ==
    CASE s = "Bold" -> 1 [] s = "Dim" -> 2 [] s = "Underlined" -> 4
      [] s = "Blink" -> 5 [] s = "Reverse" -> 7 [] s = "Hidden" -> 8

\* BTreeSet::insert on the ascending sequence of the set's elements.
BTreeSet_contains(set, x) == \E i \in 1 .. Len(set) : set[i] = x

BTreeSet_insert_push(set, x) == Append(set, x)

BTreeSet_insert(set, x) ==
    IF BTreeSet_contains(set, x) THEN set
    ELSE LET below == Cardinality({i \in 1 .. Len(set) :
                                      Style_cmp_rank(set[i]) < Style_cmp_rank(x)})
         IN  SubSeq(set, 1, below) \o <<x>> \o SubSeq(set, below + 1, Len(set))

style_new(val) ==
    [fg |-> None, bg |-> None, styles |-> <<>>, force |-> None, val |-> val]

force_styling(self, value) == [self EXCEPT !.force = Some(value)]

fg_keep_first(self, color) ==
    IF IsSome(self.fg) THEN self ELSE [self EXCEPT !.fg = Some(color)]

fg(self, color) == [self EXCEPT !.fg = Some(color)]

bg(self, color) == [self EXCEPT !.bg = Some(color)]

style(self, sty) == [self EXCEPT !.styles = BTreeSet_insert(self.styles, sty)]

black(self) == fg(self, "Black")
red(self) == fg(self, "Red")
green(self) == fg(self, "Green")
yellow(self) == fg(self, "Yellow")
blue(self) == fg(self, "Blue")
magenta(self) == fg(self, "Magenta")
cyan(self) == fg(self, "Cyan")
white(self) == fg(self, "White")
on_black(self) == bg(self, "Black")
on_red(self) == bg(self, "Red")
on_green(self) == bg(self, "Green")
on_yellow(self) == bg(self, "Yellow")
on_blue(self) == bg(self, "Blue")
on_magenta(self) == bg(self, "Magenta")
on_cyan(self) == bg(self, "Cyan")
on_white(self) == bg(self, "White")
bold(self) == style(self, "Bold")
dim(self) == style(self, "Dim")
underlined(self) == style(self, "Underlined")
blink(self) == style(self, "Blink")
reverse(self) == style(self, "Reverse")
hidden(self) == style(self, "Hidden")

\* The shortcut methods, by name.
FgShortcuts == {"black", "red", "green", "yellow", "blue", "magenta", "cyan", "white"}
BgShortcuts == {"on_black", "on_red", "on_green", "on_yellow", "on_blue",
                "on_magenta", "on_cyan", "on_white"}
StyleShortcuts == {"bold", "dim", "underlined", "blink", "reverse", "hidden"}

CallShortcut(m, self) ==
    CASE m = "black" -> black(self) [] m = "red" -> red(self)
      [] m = "green" -> green(self) [] m = "yellow" -> yellow(self)
      [] m = "blue" -> blue(self) [] m = "magenta" -> magenta(self)
      [] m = "cyan" -> cyan(self) [] m = "white" -> white(self)
      [] m = "on_black" -> on_black(self) [] m = "on_red" -> on_red(self)
      [] m = "on_green" -> on_green(self) [] m = "on_yellow" -> on_yellow(self)
      [] m = "on_blue" -> on_blue(self) [] m = "on_magenta" -> on_magenta(self)
      [] m = "on_cyan" -> on_cyan(self) [] m = "on_white" -> on_white(self)
      [] m = "bold" -> bold(self) [] m = "dim" -> dim(self)
      [] m = "underlined" -> underlined(self) [] m = "blink" -> blink(self)
      [] m = "reverse" -> reverse(self) [] m = "hidden" -> hidden(self)

\* What each shortcut method stands for: the builder call and its argument.
ShortcutCall(m) ==
    CASE m = "black" -> <<"fg", "Black">> [] m = "red" -> <<"fg", "Red">>
      [] m = "green" -> <<"fg", "Green">> [] m = "yellow" -> <<"fg", "Yellow">>
      [] m = "blue" -> <<"fg", "Blue">> [] m = "magenta" -> <<"fg", "Magenta">>
      [] m = "cyan" -> <<"fg", "Cyan">> [] m = "white" -> <<"fg", "White">>
      [] m = "on_black" -> <<"bg", "Black">> [] m = "on_red" -> <<"bg", "Red">>
      [] m = "on_green" -> <<"bg", "Green">> [] m = "on_yellow" -> <<"bg", "Yellow">>
      [] m = "on_blue" -> <<"bg", "Blue">> [] m = "on_magenta" -> <<"bg", "Magenta">>
      [] m = "on_cyan" -> <<"bg", "Cyan">> [] m = "on_white" -> <<"bg", "White">>
      [] m = "bold" -> <<"style", "Bold">> [] m = "dim" -> <<"style", "Dim">>
      [] m = "underlined" -> <<"style", "Underlined">>
      [] m = "blink" -> <<"style", "Blink">>
      [] m = "reverse" -> <<"style", "Reverse">>
      [] m = "hidden" -> <<"style", "Hidden">>

\* The history of a builder call: what the caller last gave for each field.
Given(kind, a) ==
    /\ lastFg' = IF kind = "fg" THEN Some(a) ELSE lastFg
    /\ prevFg' = IF kind = "fg" /\ IsSome(lastFg) /\ lastFg # Some(a) THEN lastFg ELSE prevFg
    /\ outOfOrder' = IF kind = "style"
                     THEN outOfOrder \/ \E b \in inserted :
                                           Style_cmp_rank(a) < Style_cmp_rank(b)
                     ELSE outOfOrder
    /\ lastBg' = IF kind = "bg" THEN Some(a) ELSE lastBg
    /\ lastForce' = IF kind = "force" THEN Some(a) ELSE lastForce
    /\ inserted' = IF kind = "style" THEN inserted \cup {a} ELSE inserted

\* The main thread owns the wrapper: it builds it while no render runs.
Building == pc[Main] = "idle"

fg_call(colors) ==
    /\ Building
    /\ \E color \in colors :
          /\ w' = fg(w, color)
          /\ Given("fg", color)
    /\ UNCHANGED <<policyVars, renderVars, raceVars>>

bg_call(colors) ==
    /\ Building
    /\ \E color \in colors :
          /\ w' = bg(w, color)
          /\ Given("bg", color)
    /\ UNCHANGED <<policyVars, renderVars, raceVars>>

style_call(styles) ==
    /\ Building
    /\ \E sty \in styles :
          /\ w' = style(w, sty)
          /\ Given("style", sty)
    /\ UNCHANGED <<policyVars, renderVars, raceVars>>

force_styling_call ==
    /\ Building
    /\ \E value \in BOOLEAN :
          /\ w' = force_styling(w, value)
          /\ Given("force", value)
    /\ UNCHANGED <<policyVars, renderVars, raceVars>>

shortcut_call(methods) ==
    /\ Building
    /\ \E m \in methods :
          /\ w' = CallShortcut(m, w)
          /\ Given(ShortcutCall(m)[1], ShortcutCall(m)[2])
    /\ UNCHANGED <<policyVars, renderVars, raceVars>>

(***************************************************************************)
(* impl_fmt!: fmt::$name::fmt for Styled<D>.  A write!(f, ...) hands its    *)
(* pieces (literal text, formatted arguments) to the formatter one after    *)
(* the other and stops at the first piece the sink refuses; the `?` after   *)
(* it returns that error from fmt.                                          *)
(***************************************************************************)
RECURSIVE Decimal(_)
Decimal(n) ==
    LET digit == <<"0", "1", "2", "3", "4", "5", "6", "7", "8", "9">>[(n % 10) + 1]
    IN  IF n < 10 THEN <<digit>> ELSE Decimal(n \div 10) \o <<digit>>

\* The pieces of write!(f, "\x1b[{}m", n).
EscapePieces(n) == << <<"ESC", "[">>, Decimal(n), <<"m">> >>

\* The pieces of write!(f, "\x1b[0m").
ResetPieces == << <<"ESC", "[", "0", "m">> >>

\* The wrapped values and the traits they are rendered under.  A value is
\* the sequence of its characters; Display writes it as it is and Debug
\* writes it between double quotes.
Values == {<<"h", "i">>, <<"x">>}
FmtTraits == {"Display", "Debug"}
InnerPieces(nm, val) ==
    IF nm = "Debug" THEN << <<"\"">>, val, <<"\"">> >> ELSE <<val>>

RECURSIVE Flatten(_)
Flatten(pieces) ==
    IF pieces = <<>> THEN <<>> ELSE Head(pieces) \o Flatten(Tail(pieces))

Written(pieces, k) == Flatten(SubSeq(pieces, 1, k))

\* Option::unwrap_or_else: whether the closure (should_style) is called.
unwrap_or_else_calls_always(o) == TRUE

unwrap_or_else_calls(o) == ~IsSome(o)

\* `let mut reset = false;`
reset_init_true == TRUE

reset_init == FALSE

\* `if reset {` before the reset write.
reset_cond_policy == IsSome(ENABLE_STYLING) /\ Unwrap(ENABLE_STYLING)

reset_cond == reset

\* The `?` operator: where fmt continues and what it has returned.
QuestionMark_ignored(ok, next) == [pc |-> next, result |-> "none"]

QuestionMark(ok, next) ==
    IF ok THEN [pc |-> next, result |-> "none"]
    ELSE [pc |-> "done", result |-> "Err"]

\* `if <decision> {`: into the escapes, or past them to the value.
AfterIf(decision) == IF decision THEN "fg" ELSE "val"

\* How many of the pieces of one write the sink takes: a reliable sink (a
\* String) takes them all, a failing one may refuse any of them.
Sinks == {"reliable", "failing"}
SinkTakes(sink, pieces) ==
    IF sink = "reliable" THEN {Len(pieces)} ELSE 0 .. Len(pieces)

\* One write!(...)? of fmt: the sink takes all the pieces, or refuses after k.
FmtWrite(sink, label, pieces, next, resetAfter) ==
    \E k \in SinkTakes(sink, pieces) :
       LET ok == k = Len(pieces)
           q == QuestionMark(ok, next)
       IN  /\ out' = out \o Written(pieces, k)
           /\ pc' = [pc EXCEPT ![Main] = q.pc]
           /\ result' = q.result
           /\ reset' = IF ok THEN resetAfter ELSE reset
           /\ failedAt' = IF ok THEN failedAt ELSE label
           /\ outAtFail' = IF ok THEN outAtFail ELSE out \o Written(pieces, k)

FmtSkip(next) ==
    /\ pc' = [pc EXCEPT ![Main] = next]
    /\ UNCHANGED <<out, result, reset, failedAt, outAtFail>>

fmt_call(traits) ==
    /\ pc[Main] = "idle"
    /\ \E nm \in traits : name' = nm
    /\ op' = [op EXCEPT ![Main] = "fmt"]
    /\ reset' = reset_init
    /\ IF unwrap_or_else_calls(w.force)
       THEN /\ effective' = None
            /\ pc' = [pc EXCEPT ![Main] = "deref"]
       ELSE /\ effective' = w.force
            /\ pc' = [pc EXCEPT ![Main] = AfterIf(Unwrap(w.force))]
    /\ held' = IF IsSome(ENABLE_STYLING) THEN {Unwrap(ENABLE_STYLING)} ELSE {}
    /\ startSet' = lastSet
    /\ setsDuring' = FALSE
    /\ reads' = 0
    /\ UNCHANGED <<env, once, ENABLE_STYLING, arg, ret, initCount, initBy, lastSet,
                   written, retSnap, wrapperVars, iter, out, result, failedAt,
                   outAtFail>>

fmt_should_style ==
    /\ pc[Main] = "access"
    /\ op[Main] = "fmt"
    /\ effective' = Some(Unwrap(ENABLE_STYLING))
    /\ pc' = [pc EXCEPT ![Main] = AfterIf(Unwrap(ENABLE_STYLING))]
    /\ reads' = reads + 1
    /\ UNCHANGED <<env, once, ENABLE_STYLING, op, arg, ret, initCount, initBy, lastSet,
                   written, retSnap, wrapperVars, name, reset, iter, out, result,
                   failedAt, outAtFail, held, startSet, setsDuring>>

fmt_fg(sink) ==
    /\ pc[Main] = "fg"
    /\ IF IsSome(w.fg)
       THEN FmtWrite(sink, "fg", EscapePieces(Color_ansi_num(Unwrap(w.fg)) + 30), "bg", TRUE)
       ELSE FmtSkip("bg")
    /\ UNCHANGED <<env, once, ENABLE_STYLING, op, arg, ret, initCount, initBy, lastSet,
                   written, retSnap, wrapperVars, name, effective, iter, raceVars>>

fmt_bg(sink) ==
    /\ pc[Main] = "bg"
    /\ IF IsSome(w.bg)
       THEN FmtWrite(sink, "bg", EscapePieces(Color_ansi_num(Unwrap(w.bg)) + 40), "styles", TRUE)
       ELSE FmtSkip("styles")
    /\ UNCHANGED <<env, once, ENABLE_STYLING, op, arg, ret, initCount, initBy, lastSet,
                   written, retSnap, wrapperVars, name, effective, iter, raceVars>>

fmt_styles(sink) ==
    /\ pc[Main] = "styles"
    /\ IF iter <= Len(w.styles)
       THEN /\ FmtWrite(sink, "style", EscapePieces(Style_ansi_num(w.styles[iter])),
                        "styles", TRUE)
            /\ iter' = iter + 1
       ELSE /\ FmtSkip("val")
            /\ iter' = iter
    /\ UNCHANGED <<env, once, ENABLE_STYLING, op, arg, ret, initCount, initBy, lastSet,
                   written, retSnap, wrapperVars, name, effective, raceVars>>

fmt_val(sink) ==
    /\ pc[Main] = "val"
    /\ FmtWrite(sink, "val", InnerPieces(name, w.val), "reset", reset)
    /\ UNCHANGED <<env, once, ENABLE_STYLING, op, arg, ret, initCount, initBy, lastSet,
                   written, retSnap, wrapperVars, name, effective, iter, raceVars>>

fmt_reset(sink) ==
    /\ pc[Main] = "reset"
    /\ IF reset_cond
       THEN FmtWrite(sink, "reset", ResetPieces, "ret_ok", reset)
       ELSE FmtSkip("ret_ok")
    /\ UNCHANGED <<env, once, ENABLE_STYLING, op, arg, ret, initCount, initBy, lastSet,
                   written, retSnap, wrapperVars, name, effective, iter, raceVars>>

fmt_ok ==
    /\ pc[Main] = "ret_ok"
    /\ result' = "Ok"
    /\ pc' = [pc EXCEPT ![Main] = "done"]
    /\ UNCHANGED <<env, once, ENABLE_STYLING, op, arg, ret, initCount, initBy, lastSet,
                   written, retSnap, wrapperVars, name, effective, reset, iter,
                   out, failedAt, outAtFail, raceVars>>

\* fmt has returned; the caller drops the output and goes on.
fmt_return ==
    /\ pc[Main] = "done"
    /\ pc' = [pc EXCEPT ![Main] = "idle"]
    /\ op' = [op EXCEPT ![Main] = "none"]
    /\ name' = "Display"
    /\ effective' = None
    /\ reset' = FALSE
    /\ iter' = 1
    /\ out' = <<>>
    /\ result' = "none"
    /\ failedAt' = "none"
    /\ outAtFail' = <<>>
    /\ reads' = 0
    /\ held' = {}
    /\ startSet' = None
    /\ setsDuring' = FALSE
    /\ UNCHANGED <<env, once, ENABLE_STYLING, arg, ret, initCount, initBy, lastSet,
                   written, retSnap, wrapperVars>>

(***************************************************************************)
(* Initial states and specifications.                                       *)
(***************************************************************************)
Environments(values) ==
    [CLICOLOR : values, CLICOLOR_FORCE : values, tty : BOOLEAN]

InitWith(envs, vals) ==
    /\ env \in envs
    /\ once = "incomplete"
    /\ ENABLE_STYLING = None
    /\ pc = [t \in Threads |-> "idle"]
    /\ op = [t \in Threads |-> "none"]
    /\ arg = [t \in Threads |-> FALSE]
    /\ ret = [t \in Threads |-> None]
    /\ initCount = 0
    /\ initBy = "none"
    /\ lastSet = None
    /\ written = {}
    /\ retSnap = [t \in Threads |-> None]
    /\ \E val \in vals : w = style_new(val)
    /\ lastFg = None
    /\ lastBg = None
    /\ lastForce = None
    /\ inserted = {}
    /\ prevFg = None
    /\ outOfOrder = FALSE
    /\ name = "Display"
    /\ effective = None
    /\ reset = FALSE
    /\ iter = 1
    /\ out = <<>>
    /\ result = "none"
    /\ failedAt = "none"
    /\ outAtFail = <<>>
    /\ reads = 0
    /\ held = {}
    /\ startSet = None
    /\ setsDuring = FALSE

\* The initial policy: one thread, every environment.
InitEnv == InitWith(Environments(EnvValues), {<<"x">>})

PolicyStep(t) ==
    \/ should_style_call(t)
    \/ \E val \in BOOLEAN : set_should_style_call(t, val)
    \/ Deref(t)
    \/ LazyInit(t)
    \/ Load(t)
    \/ Store(t)

NextEnv == PolicyStep(Main)

SpecEnv == InitEnv /\ [][NextEnv]_vars

\* The policy under concurrent callers: every thread calls should_style and
\* set_should_style; the two environments give the two initial values.
TtyEnvs == [CLICOLOR : {Some(<<"1">>)}, CLICOLOR_FORCE : {None}, tty : BOOLEAN]
InitPolicy == InitWith(TtyEnvs, {<<"x">>})

NextPolicy == \E t \in Threads : PolicyStep(t)

SpecPolicy == InitPolicy /\ [][NextPolicy]_vars

\* Building and rendering on one thread: the builder calls, then fmt into a
\* sink that takes every write.
RenderFg == {"Red", "Green"}
RenderBg == {"Blue", "Red"}
RenderShortcuts == {"red", "green", "on_blue", "on_red"} \cup StyleShortcuts
InitRender == InitWith(TtyEnvs, Values)

FmtStep(sink) ==
    \/ fmt_should_style
    \/ fmt_fg(sink)
    \/ fmt_bg(sink)
    \/ fmt_styles(sink)
    \/ fmt_val(sink)
    \/ fmt_reset(sink)
    \/ fmt_ok
    \/ fmt_return

NextRender ==
    \/ fg_call(RenderFg)
    \/ bg_call(RenderBg)
    \/ style_call(Style)
    \/ force_styling_call
    \/ shortcut_call(RenderShortcuts)
    \/ fmt_call(FmtTraits)
    \/ Deref(Main)
    \/ LazyInit(Main)
    \/ FmtStep("reliable")

SpecRender == InitRender /\ [][NextRender]_vars

\* Building and rendering on one thread, into a sink that may refuse any
\* write.
FailFg == {"Red"}
FailBg == {"Blue"}
FailStyles == {"Bold", "Underlined"}

NextFail ==
    \/ fg_call(FailFg)
    \/ bg_call(FailBg)
    \/ style_call(FailStyles)
    \/ force_styling_call
    \/ fmt_call(FmtTraits)
    \/ Deref(Main)
    \/ LazyInit(Main)
    \/ FmtStep("failing")

SpecFail == InitRender /\ [][NextFail]_vars

\* Rendering while other threads call set_should_style.
RaceFg == {"Red"}
RaceBg == {"Blue"}
RaceStyles == {"Bold"}
Setters == Threads \ {Main}
InitRace == InitWith(TtyEnvs, {<<"x">>})

NextRace ==
    \/ fg_call(RaceFg)
    \/ bg_call(RaceBg)
    \/ style_call(RaceStyles)
    \/ force_styling_call
    \/ fmt_call({"Display"})
    \/ FmtStep("failing")
    \/ \E t \in Threads : Deref(t) \/ LazyInit(t)
    \/ \E t \in Setters : Store(t) \/ \E val \in BOOLEAN : set_should_style_call(t, val)

SpecRace == InitRace /\ [][NextRace]_vars

(***************************************************************************)
(* The properties.  What the specification says a render must produce is    *)
(* written here from the specification's tables, not from the model above.  *)
(***************************************************************************)
DocColors == <<"Black", "Red", "Green", "Yellow", "Blue", "Magenta", "Cyan", "White">>
DocColorCode(c) == (CHOOSE i \in 1 .. Len(DocColors) : DocColors[i] = c) - 1
DocAttrCode(a) ==
    CASE a = "Bold" -> 1 [] a = "Dim" -> 2 [] a = "Underlined" -> 4
      [] a = "Blink" -> 5 [] a = "Reverse" -> 7 [] a = "Hidden" -> 8
DocDigits == <<"0", "1", "2", "3", "4", "5", "6", "7", "8", "9">>
DocNumber(n) ==
    IF n < 10 THEN <<DocDigits[n + 1]>>
    ELSE <<DocDigits[(n \div 10) + 1], DocDigits[(n % 10) + 1]>>
DocEscape(n) == <<"ESC", "[">> \o DocNumber(n) \o <<"m">>
DocReset == <<"ESC", "[", "0", "m">>

RECURSIVE DocAttrEscapes(_)
DocAttrEscapes(attrs) ==
    IF attrs = {} THEN <<>>
    ELSE LET least == CHOOSE a \in attrs :
                          \A b \in attrs : DocAttrCode(a) <= DocAttrCode(b)
         IN  DocEscape(DocAttrCode(least)) \o DocAttrEscapes(attrs \ {least})

DocEscapes(fgOpt, bgOpt, attrs) ==
    (IF IsSome(fgOpt) THEN DocEscape(30 + DocColorCode(Unwrap(fgOpt))) ELSE <<>>)
    \o (IF IsSome(bgOpt) THEN DocEscape(40 + DocColorCode(Unwrap(bgOpt))) ELSE <<>>)
    \o DocAttrEscapes(attrs)

\* The inner value's own rendering under the trait of the running render.
InnerRendering == Flatten(InnerPieces(name, w.val))

DocStyled(fgOpt, bgOpt, attrs) ==
    LET escapes == DocEscapes(fgOpt, bgOpt, attrs)
    IN  escapes \o InnerRendering \o (IF escapes = <<>> THEN <<>> ELSE DocReset)

Elements(seq) == {seq[i] : i \in 1 .. Len(seq)}

\* A should_style() of thread t has returned, and no set_should_style had
\* completed when it read the policy.
ReadBeforeAnySet(t) == IsSome(ret[t]) /\ retSnap[t] = None

\* C1, as stated: the initial should_style() equals
\* (CLICOLOR != "0" AND is_terminal) OR (CLICOLOR_FORCE != "0"), where only an
\* unset variable is treated as "0" and every set value is compared as it is.
StatedString(v) == IF IsSome(v) THEN Unwrap(v) ELSE <<"0">>
C1_InitialPolicyAsStated ==
    \A t \in Threads :
        ReadBeforeAnySet(t) =>
            Unwrap(ret[t]) = ((StatedString(env.CLICOLOR) # <<"0">> /\ env.tty)
                              \/ StatedString(env.CLICOLOR_FORCE) # <<"0">>)

\* C1, amended: the initial should_style() equals
\* (CLICOLOR != "0" AND is_terminal) OR (CLICOLOR_FORCE != "0"), where a
\* variable that is unset or whose value is not valid Unicode is treated as "0".
ReadString(v) == IF IsSome(v) /\ IsUnicode(Unwrap(v)) THEN Unwrap(v) ELSE <<"0">>
C1_InitialPolicy ==
    \A t \in Threads :
        ReadBeforeAnySet(t) =>
            Unwrap(ret[t]) = ((ReadString(env.CLICOLOR) # <<"0">> /\ env.tty)
                              \/ ReadString(env.CLICOLOR_FORCE) # <<"0">>)

\* A first should_style() has returned false where CLICOLOR_FORCE holds a
\* value that is not valid Unicode and the output is no terminal.
C1_Witness ==
    /\ ReadBeforeAnySet(Main)
    /\ env.CLICOLOR_FORCE = Some(<<"xFF">>)
    /\ ~env.tty
    /\ ret[Main] = Some(FALSE)

\* C2: with CLICOLOR unset or "0" and CLICOLOR_FORCE unset or "0" the initial
\* should_style() equals terminal-interactivity; with CLICOLOR_FORCE "1" it is
\* true whether or not the output is a terminal.
Falsy == {None, Some(<<"0">>)}
C2_PolicyDefault ==
    \A t \in Threads :
        ReadBeforeAnySet(t) =>
            /\ (env.CLICOLOR \in Falsy /\ env.CLICOLOR_FORCE \in Falsy)
                   => Unwrap(ret[t]) = env.tty
            /\ env.CLICOLOR_FORCE = Some(<<"1">>) => Unwrap(ret[t]) = TRUE

\* C3: a read returns the argument of the last completed set_should_style, or
\* the initial value if there is none; the initialiser runs once and never
\* replaces a stored value; every read returns the initial value or a value
\* that some set_should_style wrote.
C3_LastSetOrInitial ==
    /\ initCount <= 1
    /\ (once = "complete") = (initCount = 1)
    /\ IsSome(ENABLE_STYLING) =>
           Unwrap(ENABLE_STYLING) =
               (IF IsSome(lastSet) THEN Unwrap(lastSet) ELSE supports_styling(env))
    /\ \A t \in Threads :
           IsSome(ret[t]) =>
               /\ Unwrap(ret[t]) =
                      (IF IsSome(retSnap[t]) THEN Unwrap(retSnap[t])
                       ELSE supports_styling(env))
               /\ Unwrap(ret[t]) \in {supports_styling(env)} \cup written

\* A set_should_style was the first access to the policy: the initialiser ran
\* once before its store, the stored value differs from the initial one, and a
\* later should_style() returned the stored value.
C3_Witness ==
    /\ initCount = 1
    /\ initBy = "set"
    /\ IsSome(lastSet)
    /\ Unwrap(lastSet) # supports_styling(env)
    /\ ENABLE_STYLING = lastSet
    /\ \E t \in Threads : ret[t] = lastSet /\ retSnap[t] = lastSet

\* What a render that returned Ok must have written, given its decision.
DocRendered(fgOpt, bgOpt, attrs) ==
    IF Unwrap(effective) THEN DocStyled(fgOpt, bgOpt, attrs) ELSE InnerRendering

RenderOk == op[Main] = "fmt" /\ result = "Ok"
HasEsc(bytes) == \E i \in 1 .. Len(bytes) : bytes[i] = "ESC"

\* C4: a wrapper whose override was set by force_styling(true) renders the
\* escapes of its foreground, background and attributes whatever the policy is
\* and however set_should_style interleaves; one whose override was set by
\* force_styling(false) writes no escape byte at any point, and renders exactly
\* the inner value.
C4_OverrideIndependence ==
    /\ (op[Main] = "fmt" /\ lastForce = Some(FALSE)) => ~HasEsc(out)
    /\ (RenderOk /\ lastForce = Some(FALSE)) => out = InnerRendering
    /\ (RenderOk /\ lastForce = Some(TRUE)) =>
           out = DocStyled(w.fg, w.bg, Elements(w.styles))

\* A wrapper forced on, with a colour and an attribute, has rendered its
\* escapes while the policy was false and a set_should_style ran during the
\* render.
C4_Witness ==
    /\ RenderOk
    /\ lastForce = Some(TRUE)
    /\ w.fg = Some("Red")
    /\ w.bg = Some("Blue")
    /\ w.styles = <<"Bold">>
    /\ ENABLE_STYLING = Some(FALSE)
    /\ setsDuring
    /\ HasEsc(out)

\* C5: a styled render writes ESC[(30+fg)m, ESC[(40+bg)m, the attribute
\* escapes in ascending order of their codes, the inner value's rendering and
\* ESC[0m, in this order; style("hi").red().force_styling(true) renders
\* ESC[31m hi ESC[0m and style("x").on_blue().bold().force_styling(true)
\* renders ESC[44m ESC[1m x ESC[0m.
C5_EmissionOrder ==
    /\ (RenderOk /\ effective = Some(TRUE)) =>
           out = DocStyled(w.fg, w.bg, Elements(w.styles))
    /\ (RenderOk /\ name = "Display"
          /\ w = [fg |-> Some("Red"), bg |-> None, styles |-> <<>>,
                  force |-> Some(TRUE), val |-> <<"h", "i">>])
         => out = <<"ESC", "[", "3", "1", "m", "h", "i", "ESC", "[", "0", "m">>
    /\ (RenderOk /\ name = "Display"
          /\ w = [fg |-> None, bg |-> Some("Blue"), styles |-> <<"Bold">>,
                  force |-> Some(TRUE), val |-> <<"x">>])
         => out = <<"ESC", "[", "4", "4", "m", "ESC", "[", "1", "m", "x",
                    "ESC", "[", "0", "m">>

\* A render of a wrapper with a foreground, a background and all six
\* attributes has returned Ok with styling in effect.
C5_Witness ==
    /\ RenderOk
    /\ effective = Some(TRUE)
    /\ IsSome(w.fg)
    /\ IsSome(w.bg)
    /\ inserted = Style
    /\ Len(out) > 30

\* C6: a wrapper with no foreground, no background and no attribute writes no
\* escape and no reset, whatever its override and the policy, and renders
\* exactly the inner value; a render writes the reset only after a colour or
\* attribute escape, and a render that returns Ok wrote the reset if it wrote
\* such an escape.
Unstyled == ~IsSome(w.fg) /\ ~IsSome(w.bg) /\ w.styles = <<>>
WroteReset ==
    \E i \in 1 .. Len(out) - 2 : out[i] = "ESC" /\ out[i + 2] = "0"
WroteStyleEscape ==
    \E i \in 1 .. Len(out) - 2 : out[i] = "ESC" /\ out[i + 2] # "0"
C6_NoOpSuppression ==
    /\ (op[Main] = "fmt" /\ Unstyled) => ~HasEsc(out)
    /\ (RenderOk /\ Unstyled) => out = InnerRendering
    /\ WroteReset => WroteStyleEscape
    /\ (RenderOk /\ WroteStyleEscape) => WroteReset

\* A wrapper forced on, with nothing configured, has rendered the inner value
\* alone.
C6_Witness ==
    /\ RenderOk
    /\ Unstyled
    /\ w.force = Some(TRUE)
    /\ out = <<"h", "i">>

\* C7: the attribute set of the wrapper, and so its rendering, depends only on
\* the set of attributes inserted: inserting an attribute twice is inserting it
\* once, two insertions commute, and a styled render writes the escapes of the
\* inserted set in ascending order whatever the order of insertion was.
RECURSIVE Ascending(_)
Ascending(attrs) ==
    IF attrs = {} THEN <<>>
    ELSE LET least == CHOOSE a \in attrs :
                          \A b \in attrs : DocAttrCode(a) <= DocAttrCode(b)
         IN  <<least>> \o Ascending(attrs \ {least})
C7_AttributeSetOnly ==
    /\ w.styles = Ascending(inserted)
    /\ Building =>
           /\ \A a, b \in Style :
                  /\ style(style(w, a), a) = style(w, a)
                  /\ style(style(w, a), b) = style(style(w, b), a)
           /\ bold(bold(w)) = bold(w)
           /\ underlined(bold(w)) = bold(underlined(w))
    /\ (RenderOk /\ effective = Some(TRUE)) =>
           out = DocStyled(w.fg, w.bg, inserted)

\* Underlined was inserted before Bold, and the styled render wrote Bold's
\* escape first.
C7_Witness ==
    /\ RenderOk
    /\ effective = Some(TRUE)
    /\ inserted = {"Bold", "Underlined"}
    /\ outOfOrder
    /\ ~IsSome(w.fg) /\ ~IsSome(w.bg)
    /\ name = "Display"
    /\ out = <<"ESC", "[", "1", "m", "ESC", "[", "4", "m">> \o w.val \o DocReset

\* C8: the wrapper holds the last foreground, the last background and the last
\* override given and exactly the attributes inserted, so a call that sets one
\* of them leaves the others alone; a styled render writes the escapes of the
\* last colours only, and the escape of a replaced foreground is not in the
\* output.
Contains(bytes, part) ==
    \E i \in 0 .. Len(bytes) - Len(part) :
        SubSeq(bytes, i + 1, i + Len(part)) = part
C8_LastWriteWins ==
    /\ w.fg = lastFg
    /\ w.bg = lastBg
    /\ w.force = lastForce
    /\ Elements(w.styles) = inserted
    /\ (RenderOk /\ IsSome(lastForce)) => effective = lastForce
    /\ (RenderOk /\ effective = Some(TRUE)) =>
           /\ out = DocStyled(lastFg, lastBg, Elements(w.styles))
           /\ IsSome(prevFg) =>
                  ~Contains(out, DocEscape(30 + DocColorCode(Unwrap(prevFg))))

\* style("x").red().green().force_styling(true) has rendered ESC[32m x ESC[0m.
C8_Witness ==
    /\ RenderOk
    /\ name = "Display"
    /\ prevFg = Some("Red")
    /\ lastFg = Some("Green")
    /\ lastForce = Some(TRUE)
    /\ ~IsSome(lastBg)
    /\ inserted = {}
    /\ w.val = <<"x">>
    /\ out = <<"ESC", "[", "3", "2", "m", "x", "ESC", "[", "0", "m">>

\* C9: a write that fails ends the render with that error and nothing is
\* written after it: no reset after a failed rendering of the inner value, no
\* inner value after a failed escape write, and a failed reset write is an
\* error of the render, which returns Ok only if no write failed.
C9_FailurePropagates ==
    /\ failedAt # "none" =>
           /\ result = "Err"
           /\ pc[Main] = "done"
           /\ out = outAtFail
    /\ result = "Ok" => failedAt = "none"
    /\ failedAt = "val" => ~WroteReset
    /\ failedAt \in {"fg", "bg", "style"} =>
           \A i \in 1 .. Len(out) : out[i] \notin Elements(w.val)
    /\ failedAt = "reset" => result # "Ok"

\* The reset write has failed after the escapes and the inner value were
\* written, and the render returned the error.
C9_Witness ==
    /\ failedAt = "reset"
    /\ result = "Err"
    /\ effective = Some(TRUE)
    /\ out = DocEscapes(w.fg, w.bg, Elements(w.styles)) \o InnerRendering
    /\ IsSome(w.fg)

\* C10: a render without an override reads the policy once and a forced one
\* never; a render that returns Ok has written the complete styled form or the
\* complete plain form, by a value the policy held during the render, never
\* escapes without the reset or the reset without escapes; and a render that
\* starts after a set_should_style(v), with no set during it, uses v.
Decided == op[Main] = "fmt" /\ IsSome(effective)
C10_OneConsistentRead ==
    /\ op[Main] = "fmt" =>
           reads = (IF Decided /\ ~IsSome(w.force) THEN 1 ELSE 0)
    /\ RenderOk =>
           /\ out = DocRendered(w.fg, w.bg, Elements(w.styles))
           /\ WroteReset = WroteStyleEscape
    /\ (Decided /\ ~IsSome(w.force)) =>
           /\ Unwrap(effective) \in held
           /\ (IsSome(startSet) /\ ~setsDuring) => effective = startSet

\* A render without an override read the policy as true, a set_should_style
\* then stored false during the render, and the render wrote the complete
\* styled form.
C10_Witness ==
    /\ RenderOk
    /\ ~IsSome(w.force)
    /\ reads = 1
    /\ effective = Some(TRUE)
    /\ ENABLE_STYLING = Some(FALSE)
    /\ setsDuring
    /\ w.fg = Some("Red")
    /\ ~IsSome(w.bg)
    /\ w.styles = <<>>
    /\ out = <<"ESC", "[", "3", "1", "m", "x", "ESC", "[", "0", "m">>

====
